---- MODULE Spec2Model ----
(***************************************************************************)
(* Model of app.py: a Streamlit front end over a Backblaze B2 bucket.      *)
(* One script run executes the tab1 block (upload), then the tab2 block    *)
(* (listing and catalog build), then at most one of the tab2 button        *)
(* handlers (view, download).  Every call into the B2 SDK is an input whose *)
(* outcome (success or exception) is chosen nondeterministically.          *)
(***************************************************************************)
EXTENDS Integers, Sequences, FiniteSets, TLC

\* ------------------------------------------------------------ bounds
MaxTs == 2
MaxListing == 3
MaxUploads == 1

\* ------------------------------------------------------------ input sets
Names == {"a.pdf", "b.pdf", "c.PDF", "pdf"}
Ids == {"v1", "v2"}
Sizes == {2048}
Timestamps == 1..MaxTs
UploadableNames == {"a.pdf", "b.pdf"}
NoFile == "NoFile"

\* A FileVersion as bucket.ls() yields it (the fields the script reads).
FileVersions == [id_ : Ids, file_name : Names, size : Sizes, upload_timestamp : Timestamps]

\* bucket.ls() yields tuples (file_version, folder_name).
LsTuples == {<<fv, "None">> : fv \in FileVersions}

SeqsUpTo(S, n) == UNION {[1..k -> S] : k \in 0..n}

Listings == SeqsUpTo(LsTuples, MaxListing)

\* ------------------------------------------------------------ catalog build (tab2)

\* str.endswith
EndsWith_NoDot(s, suffix) ==
    LET t == SubSeq(suffix, 2, Len(suffix))
    IN  Len(s) >= Len(t) /\ SubSeq(s, Len(s) - Len(t) + 1, Len(s)) = t

EndsWith(s, suffix) ==
    Len(s) >= Len(suffix) /\ SubSeq(s, Len(s) - Len(suffix) + 1, Len(s)) = suffix

\* The dict entry built for one FileVersion.
FileEntry(file_version) ==
    [id |-> file_version.id_,
     name |-> file_version.file_name,
     size |-> file_version.size,
     upload_timestamp |-> file_version.upload_timestamp]

\* files[key] = value on a Python dict, kept as the sequence of its values in
\* insertion order: an existing key is overwritten in place, a new key is
\* appended.
DictSet_Append(files, key, value) == Append(files, value)

DictSet(files, key, value) ==
    IF \E i \in 1..Len(files) : files[i].name = key
    THEN [i \in 1..Len(files) |-> IF files[i].name = key THEN value ELSE files[i]]
    ELSE Append(files, value)

\* The for loop over file_versions.
RECURSIVE BuildFiles(_, _)
BuildFiles(file_versions, files) ==
    IF file_versions = <<>> THEN files
    ELSE LET file_version == Head(file_versions)[1]
             next == IF EndsWith(file_version.file_name, ".pdf")
                     THEN DictSet(files, file_version.file_name, FileEntry(file_version))
                     ELSE files
         IN  BuildFiles(Tail(file_versions), next)

\* One step of a stable descending sort: e goes after every element whose key
\* is greater than or equal to its own.
InsertDesc(sorted, e) ==
    LET before == {i \in 1..Len(sorted) : sorted[i].upload_timestamp >= e.upload_timestamp}
        k == IF before = {} THEN 0 ELSE CHOOSE i \in before : \A j \in before : j <= i
    IN  SubSeq(sorted, 1, k) \o <<e>> \o SubSeq(sorted, k + 1, Len(sorted))

RECURSIVE SortFrom(_, _)
SortFrom(list, sorted) ==
    IF list = <<>> THEN sorted
    ELSE SortFrom(Tail(list), InsertDesc(sorted, Head(list)))

\* file_list.sort(key=upload_timestamp, reverse=True): stable, descending.
SortByUpload_Ascending(file_list) ==
    LET d == SortFrom(file_list, <<>>)
    IN  [i \in 1..Len(d) |-> d[Len(d) + 1 - i]]

SortByUpload(file_list) == SortFrom(file_list, <<>>)

\* files, then file_list when files is not empty.
BuildCatalog(file_versions) ==
    LET files == BuildFiles(file_versions, <<>>)
    IN  IF files # <<>> THEN SortByUpload(files) ELSE <<>>

\* ------------------------------------------------------------ SDK calls and messages

\* A call into the SDK with its outcome, and a message shown to the user
\* (texts are written without their accents).
Call(name, ok) == [call |-> name, ok |-> ok]
Msg(level, text) == [level |-> level, text |-> text]

InitOutcomes == {"ok", "secrets_fail", "auth_fail", "bucket_fail"}
SignOutcomes == {"ok", "auth_fail", "url_fail"}
DownloadOutcomes == {"ok", "download_fail", "open_fail", "save_fail", "read_fail"}
CallOutcomes == {"ok", "fail"}

\* initialize_b2 under st.cache_resource: the body runs only while no result
\* is cached, and only a normal return is cached.
InitializeB2(cached, outcome) ==
    IF cached THEN [ok |-> TRUE, calls |-> <<>>, cached |-> TRUE]
    ELSE CASE outcome = "secrets_fail" ->
                [ok |-> FALSE, calls |-> <<>>, cached |-> FALSE]
           [] outcome = "auth_fail" ->
                [ok |-> FALSE, calls |-> <<Call("authorize_account", FALSE)>>, cached |-> FALSE]
           [] outcome = "bucket_fail" ->
                [ok |-> FALSE,
                 calls |-> <<Call("authorize_account", TRUE), Call("get_bucket_by_name", FALSE)>>,
                 cached |-> FALSE]
           [] OTHER ->
                [ok |-> TRUE,
                 calls |-> <<Call("authorize_account", TRUE), Call("get_bucket_by_name", TRUE)>>,
                 cached |-> TRUE]

\* download_file_from_b2: the temporary file is created by open(..., 'wb'), and
\* removed only on the path that reaches os.remove.
download_file_from_b2_Retry(temp, file_name, outcome) ==
    CASE outcome = "download_fail" ->
            [ok |-> FALSE, temp |-> temp,
             calls |-> <<Call("download_file_by_id", FALSE), Call("download_file_by_id", FALSE)>>,
             msgs |-> <<Msg("error", "Erro ao baixar arquivo")>>]
      [] outcome = "open_fail" ->
            [ok |-> FALSE, temp |-> temp,
             calls |-> <<Call("download_file_by_id", TRUE)>>,
             msgs |-> <<Msg("error", "Erro ao baixar arquivo")>>]
      [] outcome = "save_fail" ->
            [ok |-> FALSE, temp |-> temp \cup {file_name},
             calls |-> <<Call("download_file_by_id", TRUE), Call("save", FALSE)>>,
             msgs |-> <<Msg("error", "Erro ao baixar arquivo")>>]
      [] outcome = "read_fail" ->
            [ok |-> FALSE, temp |-> temp \cup {file_name},
             calls |-> <<Call("download_file_by_id", TRUE), Call("save", TRUE)>>,
             msgs |-> <<Msg("error", "Erro ao baixar arquivo")>>]
      [] OTHER ->
            [ok |-> TRUE, temp |-> temp \ {file_name},
             calls |-> <<Call("download_file_by_id", TRUE), Call("save", TRUE)>>,
             msgs |-> <<>>]

download_file_from_b2(temp, file_name, outcome) ==
    CASE outcome = "download_fail" ->
            [ok |-> FALSE, temp |-> temp,
             calls |-> <<Call("download_file_by_id", FALSE)>>,
             msgs |-> <<Msg("error", "Erro ao baixar arquivo")>>]
      [] outcome = "open_fail" ->
            [ok |-> FALSE, temp |-> temp,
             calls |-> <<Call("download_file_by_id", TRUE)>>,
             msgs |-> <<Msg("error", "Erro ao baixar arquivo")>>]
      [] outcome = "save_fail" ->
            [ok |-> FALSE, temp |-> temp \cup {file_name},
             calls |-> <<Call("download_file_by_id", TRUE), Call("save", FALSE)>>,
             msgs |-> <<Msg("error", "Erro ao baixar arquivo")>>]
      [] outcome = "read_fail" ->
            [ok |-> FALSE, temp |-> temp \cup {file_name},
             calls |-> <<Call("download_file_by_id", TRUE), Call("save", TRUE)>>,
             msgs |-> <<Msg("error", "Erro ao baixar arquivo")>>]
      [] OTHER ->
            [ok |-> TRUE, temp |-> temp \ {file_name},
             calls |-> <<Call("download_file_by_id", TRUE), Call("save", TRUE)>>,
             msgs |-> <<>>]

\* get_signed_url: every exception is caught, reported and turned into None
\* (url = FALSE); the function itself never raises.
get_signed_url_Reraise(outcome) ==
    CASE outcome = "auth_fail" ->
            [url |-> FALSE, raised |-> TRUE,
             calls |-> <<Call("get_download_authorization", FALSE)>>,
             msgs |-> <<Msg("error", "Erro ao gerar URL assinada")>>]
      [] outcome = "url_fail" ->
            [url |-> FALSE, raised |-> TRUE,
             calls |-> <<Call("get_download_authorization", TRUE), Call("get_download_url", FALSE)>>,
             msgs |-> <<Msg("error", "Erro ao gerar URL assinada")>>]
      [] OTHER ->
            [url |-> TRUE, raised |-> FALSE,
             calls |-> <<Call("get_download_authorization", TRUE), Call("get_download_url", TRUE)>>,
             msgs |-> <<>>]

get_signed_url(outcome) ==
    CASE outcome = "auth_fail" ->
            [url |-> FALSE, raised |-> FALSE,
             calls |-> <<Call("get_download_authorization", FALSE)>>,
             msgs |-> <<Msg("error", "Erro ao gerar URL assinada")>>]
      [] outcome = "url_fail" ->
            [url |-> FALSE, raised |-> FALSE,
             calls |-> <<Call("get_download_authorization", TRUE), Call("get_download_url", FALSE)>>,
             msgs |-> <<Msg("error", "Erro ao gerar URL assinada")>>]
      [] OTHER ->
            [url |-> TRUE, raised |-> FALSE,
             calls |-> <<Call("get_download_authorization", TRUE), Call("get_download_url", TRUE)>>,
             msgs |-> <<>>]

\* ------------------------------------------------------------ state

VARIABLES
    pc,              \* position in the script run: idle, tab1, tab2, buttons
    pressed,         \* the button whose press caused this run
    uploaded_file,   \* st.file_uploader value: a file name or NoFile
    b2_cached,       \* st.cache_resource holds the result of initialize_b2
    session_state,   \* st.session_state: key present?, uploaded_files list
    file_versions,   \* list(bucket.ls()) of this run
    file_list,       \* the catalog of this run
    selected_index,  \* index of the selected entry in file_list (0: none)
    temp_files,      \* names of the files present in tempfile.gettempdir()
    calls,           \* SDK calls made by the current operation, in order
    msgs,            \* messages shown by the current operation, in order
    op,              \* the operation that ran last in this run
    failed,          \* the operation ended in its except branch
    link,            \* what the handler rendered for the user to open
    pdf_bytes,       \* the handler's pdf_bytes was assigned (the download returned)
    buttons_shown    \* the view/download buttons were rendered by the last tab2

vars == <<pc, pressed, uploaded_file, b2_cached, session_state, file_versions, file_list,
          selected_index, temp_files, calls, msgs, op, failed, link, pdf_bytes,
          buttons_shown>>

\* ------------------------------------------------------------ handlers as functions of their inputs

\* tab1, "Enviar para o Backblaze".
UploadResult(state, cached, file_name, file_size, initOutcome, upOutcome, id, now) ==
    LET b == InitializeB2(cached, initOutcome)
    IN  IF ~b.ok
        THEN [calls |-> b.calls, cached |-> b.cached, failed |-> TRUE, state |-> state,
              msgs |-> <<Msg("error", "Erro ao enviar arquivo")>>]
        ELSE IF upOutcome # "ok"
        THEN [calls |-> b.calls \o <<Call("upload_bytes", FALSE)>>, cached |-> b.cached,
              failed |-> TRUE, state |-> state,
              msgs |-> <<Msg("error", "Erro ao enviar arquivo")>>]
        ELSE [calls |-> b.calls \o <<Call("upload_bytes", TRUE)>>, cached |-> b.cached,
              failed |-> FALSE,
              state |-> [has |-> TRUE,
                         uploaded_files |->
                             Append(IF state.has THEN state.uploaded_files ELSE <<>>,
                                    [name |-> file_name, id |-> id,
                                     size |-> file_size, timestamp |-> now])],
              msgs |-> <<Msg("success", "Arquivo enviado com sucesso!")>>]

\* tab2 up to the if files / else / except: client, listing, catalog.
ListingResult_SwallowError(cached, initOutcome, lsOutcome, listing) ==
    LET b == InitializeB2(cached, initOutcome)
    IN  IF ~b.ok
        THEN [calls |-> b.calls, cached |-> b.cached, failed |-> FALSE,
              file_versions |-> <<>>, file_list |-> <<>>,
              msgs |-> <<Msg("info", "Nenhum arquivo PDF encontrado no bucket.")>>]
        ELSE IF lsOutcome # "ok"
        THEN [calls |-> b.calls \o <<Call("ls", FALSE)>>, cached |-> b.cached, failed |-> FALSE,
              file_versions |-> <<>>, file_list |-> <<>>,
              msgs |-> <<Msg("info", "Nenhum arquivo PDF encontrado no bucket.")>>]
        ELSE LET list == BuildCatalog(listing)
             IN  [calls |-> b.calls \o <<Call("ls", TRUE)>>, cached |-> b.cached,
                  failed |-> FALSE, file_versions |-> listing, file_list |-> list,
                  msgs |-> IF list # <<>> THEN <<>>
                           ELSE <<Msg("info", "Nenhum arquivo PDF encontrado no bucket.")>>]

ListingResult_MergeSession(cached, initOutcome, lsOutcome, listing) ==
    LET b == InitializeB2(cached, initOutcome)
    IN  IF ~b.ok
        THEN [calls |-> b.calls, cached |-> b.cached, failed |-> TRUE,
              file_versions |-> <<>>, file_list |-> <<>>,
              msgs |-> <<Msg("error", "Erro ao listar arquivos")>>]
        ELSE IF lsOutcome # "ok"
        THEN [calls |-> b.calls \o <<Call("ls", FALSE)>>, cached |-> b.cached, failed |-> TRUE,
              file_versions |-> <<>>, file_list |-> <<>>,
              msgs |-> <<Msg("error", "Erro ao listar arquivos")>>]
        ELSE LET ups == session_state.uploaded_files
                 extra == [i \in 1..Len(ups) |->
                              <<[id_ |-> ups[i].id, file_name |-> ups[i].name,
                                 size |-> ups[i].size, upload_timestamp |-> ups[i].timestamp],
                                "None">>]
                 list == BuildCatalog(listing \o extra)
             IN  [calls |-> b.calls \o <<Call("ls", TRUE)>>, cached |-> b.cached,
                  failed |-> FALSE, file_versions |-> listing, file_list |-> list,
                  msgs |-> IF list # <<>> THEN <<>>
                           ELSE <<Msg("info", "Nenhum arquivo PDF encontrado no bucket.")>>]

ListingResult(cached, initOutcome, lsOutcome, listing) ==
    LET b == InitializeB2(cached, initOutcome)
    IN  IF ~b.ok
        THEN [calls |-> b.calls, cached |-> b.cached, failed |-> TRUE,
              file_versions |-> <<>>, file_list |-> <<>>,
              msgs |-> <<Msg("error", "Erro ao listar arquivos")>>]
        ELSE IF lsOutcome # "ok"
        THEN [calls |-> b.calls \o <<Call("ls", FALSE)>>, cached |-> b.cached, failed |-> TRUE,
              file_versions |-> <<>>, file_list |-> <<>>,
              msgs |-> <<Msg("error", "Erro ao listar arquivos")>>]
        ELSE LET list == BuildCatalog(listing)
             IN  [calls |-> b.calls \o <<Call("ls", TRUE)>>, cached |-> b.cached,
                  failed |-> FALSE, file_versions |-> listing, file_list |-> list,
                  msgs |-> IF list # <<>> THEN <<>>
                           ELSE <<Msg("info", "Nenhum arquivo PDF encontrado no bucket.")>>]

\* The selectbox label of an entry: its name and its size in KB to two decimals
\* (kept in hundredths of a KB).
Label(file) == <<file.name, (file.size * 100 + 512) \div 1024>>

\* list.index(selected_filename): the first position holding the label.
IndexOfLabel(list, label) ==
    CHOOSE i \in 1..Len(list) :
        Label(list[i]) = label /\ \A j \in 1..(i - 1) : Label(list[j]) # label

\* tab2, "Visualizar PDF".
ViewResult_FallbackRaises(temp, selected_file, signOutcome, dlOutcome) ==
    LET s == get_signed_url(signOutcome)
    IN  IF s.url
        THEN [calls |-> s.calls, temp |-> temp, failed |-> FALSE, link |-> "signed_url",
              bytes |-> FALSE,
              msgs |-> s.msgs \o <<Msg("success", "URL autorizada gerada com sucesso!")>>]
        ELSE LET d == download_file_from_b2(temp, selected_file.name, dlOutcome)
                 note == <<Msg("error", "Nao foi possivel gerar a URL. Tentando metodo alternativo...")>>
             IN  [calls |-> s.calls \o d.calls, temp |-> d.temp, failed |-> TRUE,
                  link |-> "none", bytes |-> d.ok,
                  msgs |-> s.msgs \o note \o d.msgs
                           \o <<Msg("error", "Erro ao visualizar arquivo")>>]

ViewResult(temp, selected_file, signOutcome, dlOutcome) ==
    LET s == get_signed_url(signOutcome)
    IN  IF s.raised
        THEN [calls |-> s.calls, temp |-> temp, failed |-> TRUE, link |-> "none",
              bytes |-> FALSE,
              msgs |-> s.msgs \o <<Msg("error", "Erro ao visualizar arquivo")>>]
        ELSE IF s.url
        THEN [calls |-> s.calls, temp |-> temp, failed |-> FALSE, link |-> "signed_url",
              bytes |-> FALSE,
              msgs |-> s.msgs \o <<Msg("success", "URL autorizada gerada com sucesso!")>>]
        ELSE LET d == download_file_from_b2(temp, selected_file.name, dlOutcome)
                 note == <<Msg("error", "Nao foi possivel gerar a URL. Tentando metodo alternativo...")>>
             IN  IF d.ok
                 THEN [calls |-> s.calls \o d.calls, temp |-> d.temp, failed |-> FALSE,
                       link |-> "data_url", bytes |-> TRUE,
                       msgs |-> s.msgs \o note \o d.msgs
                                \o <<Msg("success", "PDF carregado usando metodo alternativo!")>>]
                 ELSE [calls |-> s.calls \o d.calls, temp |-> d.temp, failed |-> TRUE,
                       link |-> "none", bytes |-> FALSE,
                       msgs |-> s.msgs \o note \o d.msgs
                                \o <<Msg("error", "Erro ao visualizar arquivo")>>]

\* tab2, "Download PDF".
DownloadResult(temp, selected_file, dlOutcome) ==
    LET d == download_file_from_b2(temp, selected_file.name, dlOutcome)
    IN  IF d.ok
        THEN [calls |-> d.calls, temp |-> d.temp, failed |-> FALSE,
              link |-> "download_button", bytes |-> TRUE, msgs |-> d.msgs]
        ELSE [calls |-> d.calls, temp |-> d.temp, failed |-> TRUE, link |-> "none",
              bytes |-> FALSE,
              msgs |-> d.msgs \o <<Msg("error", "Erro ao preparar download")>>]

\* ------------------------------------------------------------ the script run

Buttons == {"none", "upload", "view", "download"}

\* The listings bucket.ls() returns during a script run.
LsTuple(id, name, ts) ==
    <<[id_ |-> id, file_name |-> name, size |-> 2048, upload_timestamp |-> ts], "None">>

RunListings ==
    {<<>>,
     <<LsTuple("v1", "c.PDF", 1)>>,
     <<LsTuple("v1", "a.pdf", 1)>>,
     <<LsTuple("v1", "a.pdf", 1), LsTuple("v2", "b.pdf", 2)>>,
     <<LsTuple("v2", "a.pdf", 2), LsTuple("v1", "a.pdf", 1)>>,
     <<LsTuple("v1", "pdf", 2), LsTuple("v2", "b.pdf", 1), LsTuple("v1", "a.pdf", 1)>>}

Init ==
    /\ pc = "idle"
    /\ pressed = "none"
    /\ uploaded_file = NoFile
    /\ b2_cached = FALSE
    /\ session_state = [has |-> FALSE, uploaded_files |-> <<>>]
    /\ file_versions = <<>>
    /\ file_list = <<>>
    /\ selected_index = 0
    /\ temp_files = {}
    /\ calls = <<>>
    /\ msgs = <<>>
    /\ op = "none"
    /\ failed = FALSE
    /\ link = "none"
    /\ pdf_bytes = FALSE
    /\ buttons_shown = FALSE

\* A user interaction starts a run of the script from its top: the locals of
\* the previous run are gone, the cached client, the session state and the
\* temporary directory stay.
Rerun ==
    /\ pc = "idle"
    /\ \E p \in Buttons, f \in UploadableNames \cup {NoFile} :
          /\ p = "upload" =>
                f # NoFile /\ Len(session_state.uploaded_files) < MaxUploads
          /\ p \in {"view", "download"} => buttons_shown
          /\ pressed' = p
          /\ uploaded_file' = f
    /\ pc' = "tab1"
    /\ file_versions' = <<>>
    /\ file_list' = <<>>
    /\ selected_index' = 0
    /\ calls' = <<>>
    /\ msgs' = <<>>
    /\ op' = "none"
    /\ failed' = FALSE
    /\ link' = "none"
    /\ pdf_bytes' = FALSE
    /\ UNCHANGED <<b2_cached, session_state, temp_files, buttons_shown>>

\* tab1 without a press of the upload button.
Tab1Render ==
    /\ pc = "tab1"
    /\ pressed # "upload"
    /\ msgs' = IF uploaded_file # NoFile THEN <<Msg("info", "Arquivo")>> ELSE <<>>
    /\ pc' = "tab2"
    /\ UNCHANGED <<pressed, uploaded_file, b2_cached, session_state, file_versions, file_list,
                   selected_index, temp_files, calls, op, failed, link, pdf_bytes,
                   buttons_shown>>

\* tab1 with the upload button pressed.
Tab1Upload ==
    /\ pc = "tab1"
    /\ pressed = "upload"
    /\ uploaded_file # NoFile
    /\ \E io \in InitOutcomes, uo \in CallOutcomes, id \in Ids, size \in Sizes, now \in Timestamps :
          LET r == UploadResult(session_state, b2_cached, uploaded_file, size, io, uo, id, now)
          IN  /\ calls' = r.calls
              /\ msgs' = <<Msg("info", "Arquivo")>> \o r.msgs
              /\ failed' = r.failed
              /\ b2_cached' = r.cached
              /\ session_state' = r.state
    /\ op' = "upload"
    /\ pc' = "tab2"
    /\ UNCHANGED <<pressed, uploaded_file, file_versions, file_list, selected_index,
                   temp_files, link, pdf_bytes, buttons_shown>>

\* tab2: client, listing, catalog, and the branch on files.
Tab2Listing ==
    /\ pc = "tab2"
    /\ \E io \in InitOutcomes, lo \in CallOutcomes, listing \in RunListings :
          LET r == ListingResult(b2_cached, io, lo, listing)
          IN  /\ calls' = r.calls
              /\ msgs' = r.msgs
              /\ failed' = r.failed
              /\ b2_cached' = r.cached
              /\ file_versions' = r.file_versions
              /\ file_list' = r.file_list
              /\ buttons_shown' = (r.file_list # <<>>)
              /\ pc' = IF r.file_list # <<>> THEN "buttons" ELSE "idle"
    /\ op' = "listing"
    /\ UNCHANGED <<pressed, uploaded_file, session_state, selected_index, temp_files, link,
                   pdf_bytes>>

\* The selectbox and columns are rendered, no tab2 button was pressed.
NoButton ==
    /\ pc = "buttons"
    /\ pressed \notin {"view", "download"}
    /\ \E i \in 1..Len(file_list) :
          selected_index' = IndexOfLabel(file_list, Label(file_list[i]))
    /\ pc' = "idle"
    /\ UNCHANGED <<pressed, uploaded_file, b2_cached, session_state, file_versions, file_list,
                   temp_files, calls, msgs, op, failed, link, pdf_bytes, buttons_shown>>

ViewPDF ==
    /\ pc = "buttons"
    /\ pressed = "view"
    /\ \E i \in 1..Len(file_list), so \in SignOutcomes, do \in DownloadOutcomes :
          LET idx == IndexOfLabel(file_list, Label(file_list[i]))
              r == ViewResult(temp_files, file_list[idx], so, do)
          IN  /\ selected_index' = idx
              /\ calls' = r.calls
              /\ msgs' = r.msgs
              /\ failed' = r.failed
              /\ link' = r.link
              /\ pdf_bytes' = r.bytes
              /\ temp_files' = r.temp
    /\ op' = "view"
    /\ pc' = "idle"
    /\ UNCHANGED <<pressed, uploaded_file, b2_cached, session_state, file_versions, file_list,
                   buttons_shown>>

DownloadPDF ==
    /\ pc = "buttons"
    /\ pressed = "download"
    /\ \E i \in 1..Len(file_list), do \in DownloadOutcomes :
          LET idx == IndexOfLabel(file_list, Label(file_list[i]))
              r == DownloadResult(temp_files, file_list[idx], do)
          IN  /\ selected_index' = idx
              /\ calls' = r.calls
              /\ msgs' = r.msgs
              /\ failed' = r.failed
              /\ link' = r.link
              /\ pdf_bytes' = r.bytes
              /\ temp_files' = r.temp
    /\ op' = "download"
    /\ pc' = "idle"
    /\ UNCHANGED <<pressed, uploaded_file, b2_cached, session_state, file_versions, file_list,
                   buttons_shown>>

Next ==
    \/ Rerun
    \/ Tab1Render
    \/ Tab1Upload
    \/ Tab2Listing
    \/ NoButton
    \/ ViewPDF
    \/ DownloadPDF

Spec == Init /\ [][Next]_vars

\* ------------------------------------------------------------ the catalog build on its own

\* The catalog build applied to every listing of at most MaxListing records.
InitCatalog ==
    /\ pc = "catalog_input"
    /\ pressed = "none"
    /\ uploaded_file = NoFile
    /\ b2_cached = TRUE
    /\ session_state = [has |-> FALSE, uploaded_files |-> <<>>]
    /\ file_versions \in Listings
    /\ file_list = <<>>
    /\ selected_index = 0
    /\ temp_files = {}
    /\ calls = <<>>
    /\ msgs = <<>>
    /\ op = "none"
    /\ failed = FALSE
    /\ link = "none"
    /\ pdf_bytes = FALSE
    /\ buttons_shown = FALSE

CatalogBuild ==
    /\ pc = "catalog_input"
    /\ file_list' = BuildCatalog(file_versions)
    /\ pc' = "catalog_built"
    /\ UNCHANGED <<pressed, uploaded_file, b2_cached, session_state, file_versions,
                   selected_index, temp_files, calls, msgs, op, failed, link, pdf_bytes,
                   buttons_shown>>

NextCatalog == CatalogBuild

SpecCatalog == InitCatalog /\ [][NextCatalog]_vars

\* ------------------------------------------------------------ properties

CatalogBuilt == pc = "catalog_built"

\* The timestamps of the listed records that carry a given name.
TimestampsOf(listing, name) ==
    {listing[k][1].upload_timestamp :
        k \in {j \in 1..Len(listing) : listing[j][1].file_name = name}}

CallNames == {calls[i].call : i \in 1..Len(calls)}
FailedCalls == {i \in 1..Len(calls) : ~calls[i].ok}
SigningCalls == {"get_download_authorization", "get_download_url"}
SignFailed == \E i \in FailedCalls : calls[i].call \in SigningCalls
ErrorMsgs == SelectSeq(msgs, LAMBDA m : m.level = "error")
Shown(level, text) == \E i \in 1..Len(msgs) : msgs[i] = Msg(level, text)

\* C1: the catalog entry kept for each name carries the maximum
\* upload_timestamp among the listed records of that name, whatever the
\* arrival order.
C1_LatestByTimestamp ==
    CatalogBuilt =>
        \A i \in 1..Len(file_list) :
            \A t \in TimestampsOf(file_versions, file_list[i].name) :
                t <= file_list[i].upload_timestamp

\* C2: after download_file_from_b2 has been called by a handler, the temporary
\* file of the selected entry is absent, on every exit path.
C2_TempFileRemoved ==
    (op \in {"view", "download"} /\ "download_file_by_id" \in CallNames) =>
        file_list[selected_index].name \notin temp_files

\* C3: a view action whose signed-URL issuance failed, or which ended in
\* failure, has called the fallback download.
C3_FallbackBeforeFailure ==
    (op = "view" /\ (failed \/ SignFailed)) => "download_file_by_id" \in CallNames

C3_Witness ==
    op = "view" /\ failed /\ SignFailed /\ "download_file_by_id" \in CallNames

\* C4 (as claimed): when signed-URL issuance fails and the fallback download
\* succeeds, a data URL is rendered and no error message is shown.
C4_NoErrorShown ==
    (op = "view" /\ SignFailed /\ pdf_bytes) => (link = "data_url" /\ ErrorMsgs = <<>>)

\* C4 (amended): when signed-URL issuance fails and the fallback download
\* succeeds, a data URL is rendered, the action does not end in failure, and
\* the error messages shown are exactly the two notices of the signing
\* failure, followed by the success message of the fallback.
C4_OnlySigningNotices ==
    (op = "view" /\ SignFailed /\ pdf_bytes) =>
        /\ link = "data_url"
        /\ ~failed
        /\ ErrorMsgs = <<Msg("error", "Erro ao gerar URL assinada"),
                         Msg("error", "Nao foi possivel gerar a URL. Tentando metodo alternativo...")>>
        /\ msgs[Len(msgs)] = Msg("success", "PDF carregado usando metodo alternativo!")

C4_Witness == op = "view" /\ SignFailed /\ pdf_bytes /\ link = "data_url"

\* C5: the catalog holds at most one entry per distinct name.
C5_OneEntryPerName ==
    CatalogBuilt =>
        \A i, j \in 1..Len(file_list) : file_list[i].name = file_list[j].name => i = j

C5_Witness ==
    /\ CatalogBuilt
    /\ Len(file_versions) = 3
    /\ Len(file_list) = 2
    /\ \A k \in 1..3 : file_versions[k][1].file_name \in {"a.pdf", "b.pdf"}

\* C6: the catalog is sorted by upload_timestamp descending: each entry's
\* timestamp is at least that of the entry after it.
C6_SortedDescending ==
    CatalogBuilt =>
        \A i \in 1..(Len(file_list) - 1) :
            file_list[i].upload_timestamp >= file_list[i + 1].upload_timestamp

C6_Witness ==
    /\ CatalogBuilt
    /\ Len(file_versions) = 2
    /\ Len(file_list) = 2
    /\ file_versions[1][1].upload_timestamp < file_versions[2][1].upload_timestamp
    /\ file_list[1].name = file_versions[2][1].file_name

\* C7: every catalog entry is a listed record whose name ends in ".pdf" (of
\* the names listed, "a.pdf" and "b.pdf"); no other record appears.
C7_OnlyPdfNames ==
    CatalogBuilt =>
        \A i \in 1..Len(file_list) :
            /\ file_list[i].name \in {"a.pdf", "b.pdf"}
            /\ \E k \in 1..Len(file_versions) : file_list[i] = FileEntry(file_versions[k][1])

C7_Witness ==
    /\ CatalogBuilt
    /\ Len(file_list) = 1
    /\ \E k \in 1..Len(file_versions) : file_versions[k][1].file_name = "pdf"
    /\ \E k \in 1..Len(file_versions) : file_versions[k][1].file_name = "c.PDF"

\* The position at which a name first arrives in a listing.
FirstArrival(listing, name) ==
    CHOOSE k \in 1..Len(listing) :
        /\ listing[k][1].file_name = name
        /\ \A j \in 1..(k - 1) : listing[j][1].file_name # name

\* cat is the one catalog a listing determines: the last-arrived record of
\* each listed ".pdf" name, one entry per name, ordered by timestamp
\* descending and, among equal timestamps, by first arrival of the name.
IsCatalogOf(cat, listing) ==
    /\ \A i \in 1..Len(cat) :
          /\ cat[i].name \in {"a.pdf", "b.pdf"}
          /\ \E k \in 1..Len(listing) :
                /\ cat[i] = FileEntry(listing[k][1])
                /\ \A j \in (k + 1)..Len(listing) : listing[j][1].file_name # cat[i].name
    /\ \A k \in 1..Len(listing) :
          listing[k][1].file_name \in {"a.pdf", "b.pdf"} =>
              \E i \in 1..Len(cat) : cat[i].name = listing[k][1].file_name
    /\ \A i, j \in 1..Len(cat) :
          i < j =>
              /\ cat[i].name # cat[j].name
              /\ \/ cat[i].upload_timestamp > cat[j].upload_timestamp
                 \/ /\ cat[i].upload_timestamp = cat[j].upload_timestamp
                    /\ FirstArrival(listing, cat[i].name) < FirstArrival(listing, cat[j].name)

\* C8: the catalog of a run is determined by the listing of that run alone;
\* the session upload list has no part in it.
C8_CatalogFromListingOnly == IsCatalogOf(file_list, file_versions)

C8_Witness ==
    /\ op = "listing"
    /\ file_list # <<>>
    /\ \E u \in 1..Len(session_state.uploaded_files) :
          \A i \in 1..Len(file_list) :
              file_list[i].name # session_state.uploaded_files[u].name

\* C9 (as claimed): in every operation (upload handler, listing block, view
\* handler, download handler; calls is the log of the current one) a failed SDK
\* call is the last SDK call.
C9_NoCallAfterFailure == \A i \in FailedCalls : i = Len(calls)

\* C9 (amended): no SDK call is made twice in an operation; a failed call is
\* reported by an error message; a failed call is the last call of the
\* operation and ends it in failure, except a failed signing call of the view
\* action, after which only the calls of the fallback download follow.
C9_NoRetryFallbackOnly ==
    /\ \A i, j \in 1..Len(calls) : calls[i].call = calls[j].call => i = j
    /\ FailedCalls # {} => ErrorMsgs # <<>>
    /\ \A i \in FailedCalls :
          \/ i = Len(calls) /\ failed
          \/ /\ op = "view"
             /\ calls[i].call \in SigningCalls
             /\ \A j \in (i + 1)..Len(calls) : calls[j].call \in {"download_file_by_id", "save"}

C9_Witness ==
    /\ op = "view"
    /\ Cardinality(FailedCalls) = 2
    /\ failed

\* C10: after the tab2 listing, "no PDF files found" is shown exactly when the
\* listing call succeeded and the catalog is empty, and the listing error is
\* shown exactly when the client or the listing call failed; never both.
C10_EmptyIsNotAnError ==
    op = "listing" =>
        LET lsOk == \E i \in 1..Len(calls) : calls[i] = Call("ls", TRUE)
            noFiles == Shown("info", "Nenhum arquivo PDF encontrado no bucket.")
            listError == Shown("error", "Erro ao listar arquivos")
        IN  /\ noFiles <=> (lsOk /\ file_list = <<>>)
            /\ listError <=> ~lsOk
            /\ ~(noFiles /\ listError)

C10_Witness ==
    /\ op = "listing"
    /\ file_versions # <<>>
    /\ file_list = <<>>
    /\ Shown("info", "Nenhum arquivo PDF encontrado no bucket.")

====
